---- MODULE Spec2Model ----
\* Model of zephyr-bot.py: the commit-message tag policy of the Zephyr
\* review bot (zephyr_get_review and its validators) and the main() driver
\* that reads the HEAD commit, prints the verdict and sets the exit status.
\*
\* A commit message is a sequence of one-character strings.  An explanation
\* (and standard output) is a sequence of text fragments whose concatenation
\* is the Python string; the words the properties look for are fragments of
\* their own.
EXTENDS Integers, Sequences, FiniteSets, TLC

\* ------------------------------------------------------------------------
\* Bounds of the explored inputs
\* ------------------------------------------------------------------------

\* Largest number of lexemes appended after the head of a commit message.
MaxBody == 4

\* ------------------------------------------------------------------------
\* Review values (zephyr-bot.py:17-20)
\* ------------------------------------------------------------------------

REVIEW_STRICTLY_DO_NOT_SUBMIT == -1
REVIEW_PREFER_NOT_SUBMITTED == -1
REVIEW_NEEDS_HUMAN_APPROVAL == 1
REVIEW_AUTOMATIC_APPROVAL == 1

\* ------------------------------------------------------------------------
\* Texts
\* ------------------------------------------------------------------------

NL == "\n"

\* The disclaimer printed after every verdict.
BOT_DISCLAIMER_MESSAGE ==
    << "This is an automated message from a bot trying to be helpful.  If I'm mis-behaving, or if this message seems to be wrong, please feel free to reach out to my owner, jrosenth@chromium.org." >>

\* Explanation returned by check_upstream_commit.
UpstreamText ==
    << "The UPSTREAM tag is ",
       "obsolete",
       " and should no longer be used.\n\nIf you are cherry-picking from upstream to a release branch, you should\nuse the ",
       "BACKPORT",
       " tag, regardless if the cherry-pick is clean or not.\n\nIf you are cherry-picking from upstream to a main branch, or your PR was\nmerged into a release branch upstream, then Copybara should copy your CL\nto the appropriate branch within 24 hours.\n\nNote, if you would like an automated approval on backports to a\nrelease branch, simply wait for Copybara to copy your CL to the main\nbranch, and then use the \"Cherry-Pick\" button in the Gerrit UI to copy\nthe CL to a release branch, adding the ",
       "BACKPORT",
       " tag.  You can then add\nthe Rubber Stamper bot as a reviewer on the CL and it will\nauto-approve." >>

\* Explanation returned by check_backport_commit.
BackportText ==
    << "Reviewers: please identify if this BACKPORT commit is acceptable to merge into the release branch." >>

\* Explanation of check_frompull_commit when no pull-request link is found.
FrompullNoLinkText ==
    << "Please add a link to the pull request in the commit message." >>

\* Explanation of check_frompull_commit when a pull-request link is found.
FrompullText ==
    << "Reviewers: please identify if this FROMPULL commit is acceptable to merge to our Chromium OS branches." >>

\* Explanation returned by check_chromium_commit.
ChromiumText ==
    << "The CHROMIUM tag is used for commits in this repository which cannot be ",
       "upstreamed",
       ".\n\nGenerally speaking, almost all commits can either be ",
       "upstreamed",
       ", or instead landed in one of our local repositories, such as platform/ec.\n\n* If it's possible to ",
       "upstream",
       " this CL, please do so.  You can reupload this CL with the FROMPULL tag instead after uploading the pull request.\n\n* Otherwise, if it's possible to land this code in platform/ec or another local repository instead, please do that, and abandon this CL.\n\nIf none of the above are possible, you may remove my CR-1 on this CL and proceed with the review.\n\nThanks for helping us keep ",
       "upstream",
       " first!\n" >>

\* Opening of the explanation built when no tag matched.
NoTagHeader ==
    << "Your commit message subject line in this repository MUST include one\nof the following tags to help us track upstream changes:\n\n" >>

BackportHelp ==
    "This tag should be used for commits which have already merged into upstream Zephyr main branch, and you are cherry-picking to a release branch.  Note that this tag is now used regardless if the cherry-pick was clean or not."

FrompullHelp ==
    "This tag should be used for commits which have not yet been merged into upstream Zepyhr, but have a pending pull request open.  Please link to the pull request in the commit message."

ChromiumHelp ==
    "This tag should be used for commits which will never be upstreamed. Generally speaking, these commits can almost always be avoided by landing code in one of the repositories we maintain (i.e., platform/ec), and should only be used as a last resort if it's impossible to put it in one of our modules, and upstream won't accept our change.  Please include adequate justification as to why this commit cannot be upstreamed in your commit message."

UpstreamHelp ==
    "This tag should never be used."

\* ------------------------------------------------------------------------
\* Character-level helpers
\* ------------------------------------------------------------------------

\* The characters of the tag names of the table.
TagChars(tag) ==
    CASE tag = "BACKPORT" -> <<"B", "A", "C", "K", "P", "O", "R", "T">>
      [] tag = "FROMPULL" -> <<"F", "R", "O", "M", "P", "U", "L", "L">>
      [] tag = "CHROMIUM" -> <<"C", "H", "R", "O", "M", "I", "U", "M">>
      [] tag = "UPSTREAM" -> <<"U", "P", "S", "T", "R", "E", "A", "M">>

\* "{}: ".format(tag)
TagPrefix(tag) == TagChars(tag) \o <<":", " ">>

\* Does p occur in s at position pos (1-based)?
MatchesAt(s, pos, p) ==
    /\ pos + Len(p) - 1 <= Len(s)
    /\ \A k \in 1..Len(p) : s[pos + k - 1] = p[k]

\* Variant: the prefix is looked for anywhere in the message (the "in"
\* operator instead of str.startswith).
StartsWithAnywhere(s, p) == \E pos \in 1..Len(s) : MatchesAt(s, pos, p)

\* str.startswith
StartsWith(s, p) == MatchesAt(s, 1, p)

\* re.escape("https://github.com/zephyrproject-")
GithubZephyr ==
    <<"h", "t", "t", "p", "s", ":", "/", "/", "g", "i", "t", "h", "u", "b",
      ".", "c", "o", "m", "/", "z", "e", "p", "h", "y", "r", "p", "r", "o",
      "j", "e", "c", "t", "-">>

\* The literal "/pull/" of the pattern.
PullPath == <<"/", "p", "u", "l", "l", "/">>

\* [0-9]
Digits == {"0", "1", "2", "3", "4", "5", "6", "7", "8", "9"}

\* Variant: the pattern compiled with re.DOTALL, where "." also matches a
\* line break.
PullRequestSearchDotAll(s) ==
    \E b \in 1..Len(s) :
        /\ MatchesAt(s, b, GithubZephyr)
        /\ \E t \in (b + Len(GithubZephyr))..Len(s) :
              /\ MatchesAt(s, t, PullPath)
              /\ t + Len(PullPath) <= Len(s)
              /\ s[t + Len(PullPath)] \in Digits

\* p.search(commit_message) is not None, for the pattern
\* re.escape("https://github.com/zephyrproject-") + r".*/pull/[0-9]+".
\* The pattern is compiled without flags, so "." matches any character
\* except a line break.
PullRequestSearch(s) ==
    \E b \in 1..Len(s) :
        /\ MatchesAt(s, b, GithubZephyr)
        /\ \E t \in (b + Len(GithubZephyr))..Len(s) :
              /\ \A k \in (b + Len(GithubZephyr))..(t - 1) : s[k] # NL
              /\ MatchesAt(s, t, PullPath)
              /\ t + Len(PullPath) <= Len(s)
              /\ s[t + Len(PullPath)] \in Digits

\* ------------------------------------------------------------------------
\* Validators
\* ------------------------------------------------------------------------

check_upstream_commit(commit_message) ==
    <<REVIEW_STRICTLY_DO_NOT_SUBMIT, UpstreamText>>

\* Variant: the validator votes +2.
check_backport_commit_plus2(commit_message) ==
    <<2, BackportText>>

check_backport_commit(commit_message) ==
    <<REVIEW_NEEDS_HUMAN_APPROVAL, BackportText>>

check_frompull_commit(commit_message) ==
    IF ~PullRequestSearch(commit_message)
    THEN <<REVIEW_STRICTLY_DO_NOT_SUBMIT, FrompullNoLinkText>>
    ELSE <<REVIEW_NEEDS_HUMAN_APPROVAL, FrompullText>>

check_chromium_commit(commit_message) ==
    <<REVIEW_PREFER_NOT_SUBMITTED, ChromiumText>>

\* Variant: the deprecated tag removed from the table instead of hidden
\* from the catalogue.
zephyr_tags_without_upstream ==
    << [tag |-> "BACKPORT", review_func |-> "check_backport_commit",
        helpmsg |-> BackportHelp],
       [tag |-> "FROMPULL", review_func |-> "check_frompull_commit",
        helpmsg |-> FrompullHelp],
       [tag |-> "CHROMIUM", review_func |-> "check_chromium_commit",
        helpmsg |-> ChromiumHelp] >>

\* Variant: the last entry carries the name of the first one.
zephyr_tags_duplicate_backport ==
    << [tag |-> "BACKPORT", review_func |-> "check_backport_commit",
        helpmsg |-> BackportHelp],
       [tag |-> "FROMPULL", review_func |-> "check_frompull_commit",
        helpmsg |-> FrompullHelp],
       [tag |-> "CHROMIUM", review_func |-> "check_chromium_commit",
        helpmsg |-> ChromiumHelp],
       [tag |-> "BACKPORT", review_func |-> "check_upstream_commit",
        helpmsg |-> UpstreamHelp] >>

\* The tag table, in declaration order.
zephyr_tags ==
    << [tag |-> "BACKPORT", review_func |-> "check_backport_commit",
        helpmsg |-> BackportHelp],
       [tag |-> "FROMPULL", review_func |-> "check_frompull_commit",
        helpmsg |-> FrompullHelp],
       [tag |-> "CHROMIUM", review_func |-> "check_chromium_commit",
        helpmsg |-> ChromiumHelp],
       [tag |-> "UPSTREAM", review_func |-> "check_upstream_commit",
        helpmsg |-> UpstreamHelp] >>

\* review_func(commit_message): the call through the table's function value.
CallReviewFunc(review_func, commit_message) ==
    CASE review_func = "check_backport_commit" ->
             check_backport_commit(commit_message)
      [] review_func = "check_frompull_commit" ->
             check_frompull_commit(commit_message)
      [] review_func = "check_chromium_commit" ->
             check_chromium_commit(commit_message)
      [] review_func = "check_upstream_commit" ->
             check_upstream_commit(commit_message)

\* "* {}: {}\n\n".format(tag, helpmsg)
CatalogueEntry(tag, helpmsg) == <<"* ", tag, ": ", helpmsg, "\n\n">>

\* ------------------------------------------------------------------------
\* Commit messages explored
\* ------------------------------------------------------------------------

\* Lower-case form of the letters of the tag names (used only to build
\* wrongly-cased inputs).
ToLower(ch) ==
    CASE ch = "A" -> "a" [] ch = "B" -> "b" [] ch = "C" -> "c"
      [] ch = "E" -> "e" [] ch = "F" -> "f" [] ch = "H" -> "h"
      [] ch = "I" -> "i" [] ch = "K" -> "k" [] ch = "L" -> "l"
      [] ch = "M" -> "m" [] ch = "O" -> "o" [] ch = "P" -> "p"
      [] ch = "R" -> "r" [] ch = "S" -> "s" [] ch = "T" -> "t"
      [] ch = "U" -> "u" [] OTHER -> ch

LowerCase(s) == [k \in 1..Len(s) |-> ToLower(s[k])]

TagNames == {"BACKPORT", "FROMPULL", "CHROMIUM", "UPSTREAM"}

\* Beginnings of a message: nothing, a well-formed tag prefix, and the
\* malformed variants of each tag (lower case, no space after the colon,
\* leading blank, tag on the second line).
WellFormedHeads == {TagPrefix(t) : t \in TagNames}
LowerCaseHeads == {LowerCase(TagChars(t)) \o <<":", " ">> : t \in TagNames}
NoSpaceHeads == {TagChars(t) \o <<":">> : t \in TagNames}
LeadingBlankHeads == {<<" ">> \o TagPrefix(t) : t \in TagNames}
LaterLineHeads == {<<"x", NL>> \o TagPrefix(t) : t \in TagNames}

Heads ==
    {<<>>} \cup WellFormedHeads \cup LowerCaseHeads \cup NoSpaceHeads
           \cup LeadingBlankHeads \cup LaterLineHeads

\* Pieces a message body is assembled from.
BodyLexemes == {GithubZephyr, PullPath, <<"1">>, <<NL>>, <<"x">>}

RECURSIVE Bodies(_)
Bodies(n) ==
    IF n = 0 THEN {<<>>}
    ELSE Bodies(n - 1) \cup {b \o l : b \in Bodies(n - 1), l \in BodyLexemes}

Messages == {h \o b : h \in Heads, b \in Bodies(MaxBody)}

\* ------------------------------------------------------------------------
\* State
\* ------------------------------------------------------------------------

VARIABLES
    worktree,        \* what Repo(".") finds: "invalid", "empty" or "ok"
    head_message,    \* message of the HEAD commit of the work tree
    pc,              \* position of the run
    c,               \* c.message once repo.commit("HEAD") has returned
    commit_message,  \* argument of zephyr_get_review
    tag_idx,         \* position of the first loop over zephyr_tags
    help_idx,        \* position of the second loop over zephyr_tags
    review_msg,      \* the local msg of zephyr_get_review
    called,          \* validators invoked so far, in order
    verdict,         \* value returned by zephyr_get_review
    ret,             \* main's ret
    msg,             \* main's msg
    stdout,          \* text written to standard output
    raised,          \* TRUE once an exception has propagated out of main
    exit_status      \* exit status of the process, meaningful when exited

vars ==
    <<worktree, head_message, pc, c, commit_message, tag_idx, help_idx,
      review_msg, called, verdict, ret, msg, stdout, raised, exit_status>>

world == <<worktree, head_message>>
review_locals == <<commit_message, tag_idx, help_idx, review_msg, called, verdict>>
main_locals == <<c, ret, msg>>
process == <<stdout, raised, exit_status>>

Init ==
    /\ worktree \in {"invalid", "empty", "ok"}
    /\ head_message \in (IF worktree = "ok" THEN Messages ELSE {<<>>})
    /\ pc = "open_repo"
    /\ c = <<>>
    /\ commit_message = <<>>
    /\ tag_idx = 0
    /\ help_idx = 0
    /\ review_msg = <<>>
    /\ called = <<>>
    /\ verdict = <<>>
    /\ ret = 0
    /\ msg = <<>>
    /\ stdout = <<>>
    /\ raised = FALSE
    /\ exit_status = 0

\* ------------------------------------------------------------------------
\* main: the collaborator layer
\* ------------------------------------------------------------------------

\* Exit status of the interpreter when an exception leaves the script.
UncaughtExceptionStatus == 1

\* repo = Repo(".")
OpenRepo ==
    /\ pc = "open_repo"
    /\ worktree # "invalid"
    /\ pc' = "get_commit"
    /\ UNCHANGED <<world, review_locals, main_locals, process>>

\* Repo(".") raises; nothing catches it.
OpenRepoRaises ==
    /\ pc = "open_repo"
    /\ worktree = "invalid"
    /\ pc' = "exited"
    /\ raised' = TRUE
    /\ exit_status' = UncaughtExceptionStatus
    /\ UNCHANGED <<world, review_locals, main_locals, stdout>>

\* c = repo.commit("HEAD")
GetCommit ==
    /\ pc = "get_commit"
    /\ worktree = "ok"
    /\ c' = head_message
    /\ pc' = "call_review"
    /\ UNCHANGED <<world, review_locals, ret, msg, process>>

\* repo.commit("HEAD") raises; nothing catches it.
GetCommitRaises ==
    /\ pc = "get_commit"
    /\ worktree = "empty"
    /\ pc' = "exited"
    /\ raised' = TRUE
    /\ exit_status' = UncaughtExceptionStatus
    /\ UNCHANGED <<world, review_locals, main_locals, stdout>>

\* ------------------------------------------------------------------------
\* zephyr_get_review
\* ------------------------------------------------------------------------

\* zephyr_get_review(c.message) is entered.
EnterReview ==
    /\ pc = "call_review"
    /\ commit_message' = c
    /\ tag_idx' = 1
    /\ pc' = "scan"
    /\ UNCHANGED <<world, help_idx, review_msg, called, verdict,
                   main_locals, process>>

\* The entry under the first loop matches: its validator is called and its
\* result returned.
ScanMatch ==
    /\ pc = "scan"
    /\ tag_idx <= Len(zephyr_tags)
    /\ StartsWith(commit_message, TagPrefix(zephyr_tags[tag_idx].tag))
    /\ called' = Append(called, zephyr_tags[tag_idx].review_func)
    /\ verdict' = CallReviewFunc(zephyr_tags[tag_idx].review_func,
                                 commit_message)
    /\ pc' = "assign"
    /\ UNCHANGED <<world, commit_message, tag_idx, help_idx, review_msg,
                   main_locals, process>>

\* The entry under the first loop does not match: on to the next one.
ScanNext ==
    /\ pc = "scan"
    /\ tag_idx <= Len(zephyr_tags)
    /\ ~StartsWith(commit_message, TagPrefix(zephyr_tags[tag_idx].tag))
    /\ tag_idx' = tag_idx + 1
    /\ UNCHANGED <<world, pc, commit_message, help_idx, review_msg, called,
                   verdict, main_locals, process>>

\* No tag matched: msg starts with the instruction.
ScanEnd ==
    /\ pc = "scan"
    /\ tag_idx > Len(zephyr_tags)
    /\ review_msg' = NoTagHeader
    /\ help_idx' = 1
    /\ pc' = "build"
    /\ UNCHANGED <<world, commit_message, tag_idx, called, verdict,
                   main_locals, process>>

\* Variant: no entry is left out of the catalogue.
HiddenNone(tag) == FALSE

\* if tag == "UPSTREAM": continue
Hidden(tag) == tag = "UPSTREAM"

\* Variant: skipping an entry does not advance the loop.
BuildSkipStuck ==
    /\ pc = "build"
    /\ help_idx <= Len(zephyr_tags)
    /\ Hidden(zephyr_tags[help_idx].tag)
    /\ UNCHANGED vars

\* The entry under the second loop is the deprecated tag: skipped.
BuildSkip ==
    /\ pc = "build"
    /\ help_idx <= Len(zephyr_tags)
    /\ Hidden(zephyr_tags[help_idx].tag)
    /\ help_idx' = help_idx + 1
    /\ UNCHANGED <<world, pc, commit_message, tag_idx, review_msg, called,
                   verdict, main_locals, process>>

\* msg += "* {}: {}\n\n".format(tag, helpmsg)
BuildAdd ==
    /\ pc = "build"
    /\ help_idx <= Len(zephyr_tags)
    /\ ~Hidden(zephyr_tags[help_idx].tag)
    /\ review_msg' = review_msg \o CatalogueEntry(zephyr_tags[help_idx].tag,
                                                  zephyr_tags[help_idx].helpmsg)
    /\ help_idx' = help_idx + 1
    /\ UNCHANGED <<world, pc, commit_message, tag_idx, called, verdict,
                   main_locals, process>>

\* return REVIEW_STRICTLY_DO_NOT_SUBMIT, msg
BuildReturn ==
    /\ pc = "build"
    /\ help_idx > Len(zephyr_tags)
    /\ verdict' = <<REVIEW_STRICTLY_DO_NOT_SUBMIT, review_msg>>
    /\ pc' = "assign"
    /\ UNCHANGED <<world, commit_message, tag_idx, help_idx, review_msg,
                   called, main_locals, process>>

\* ------------------------------------------------------------------------
\* main: output and exit
\* ------------------------------------------------------------------------

\* ret, msg = zephyr_get_review(c.message)
AssignVerdict ==
    /\ pc = "assign"
    /\ ret' = verdict[1]
    /\ msg' = verdict[2]
    /\ pc' = "print_msg"
    /\ UNCHANGED <<world, review_locals, c, process>>

\* Variant: print(x, end="").
PrintOutNoLineEnd(out, x) == out \o x

\* print(x): x followed by the line end.
PrintOut(out, x) == out \o x \o <<NL>>

\* print(msg)
PrintMsg ==
    /\ pc = "print_msg"
    /\ stdout' = PrintOut(stdout, msg)
    /\ pc' = "print_blank"
    /\ UNCHANGED <<world, review_locals, main_locals, raised, exit_status>>

\* print("\n")
PrintBlank ==
    /\ pc = "print_blank"
    /\ stdout' = PrintOut(stdout, <<NL>>)
    /\ pc' = "print_disclaimer"
    /\ UNCHANGED <<world, review_locals, main_locals, raised, exit_status>>

\* print(BOT_DISCLAIMER_MESSAGE)
PrintDisclaimer ==
    /\ pc = "print_disclaimer"
    /\ stdout' = PrintOut(stdout, BOT_DISCLAIMER_MESSAGE)
    /\ pc' = "return"
    /\ UNCHANGED <<world, review_locals, main_locals, raised, exit_status>>

\* Variant: the comparison reversed.
MainReturnPositive(r) == r > 0

\* return ret < 0
MainReturn(r) == r < 0

\* sys.exit(ret) with a bool: True exits with 1, False with 0.
ExitStatus(b) == IF b THEN 1 ELSE 0

\* ret = main(); sys.exit(ret)
Exit ==
    /\ pc = "return"
    /\ exit_status' = ExitStatus(MainReturn(ret))
    /\ pc' = "exited"
    /\ UNCHANGED <<world, review_locals, main_locals, stdout, raised>>

Next ==
    \/ OpenRepo
    \/ OpenRepoRaises
    \/ GetCommit
    \/ GetCommitRaises
    \/ EnterReview
    \/ ScanMatch
    \/ ScanNext
    \/ ScanEnd
    \/ BuildSkip
    \/ BuildAdd
    \/ BuildReturn
    \/ AssignVerdict
    \/ PrintMsg
    \/ PrintBlank
    \/ PrintDisclaimer
    \/ Exit

Spec == Init /\ [][Next]_vars

\* The interpreter keeps running the script until it exits.
LiveSpec == Spec /\ WF_vars(Next)

\* ------------------------------------------------------------------------
\* Vocabulary of the properties
\* ------------------------------------------------------------------------

\* s begins with p, stated on the leading slice of s.
Begins(s, p) == Len(s) >= Len(p) /\ SubSeq(s, 1, Len(p)) = p

BeginsWithTag(s, tag) == Begins(s, TagChars(tag) \o <<":", " ">>)

BeginsWithNoTag(s) == \A t \in TagNames : ~BeginsWithTag(s, t)

\* zephyr_get_review has returned.
Reviewed == verdict # <<>>

\* The text mentions the word.
Mentions(text, word) == \E k \in 1..Len(text) : text[k] = word

\* The text holds, at fragment k, the bullet of the tag with the help text.
EntryAt(text, k, tag, helpmsg) ==
    /\ k + 4 <= Len(text)
    /\ text[k] = "* "
    /\ text[k + 1] = tag
    /\ text[k + 2] = ": "
    /\ text[k + 3] = helpmsg
    /\ text[k + 4] = "\n\n"

\* The text offers the tag as a bullet.
Offers(text, tag) ==
    \E k \in 1..(Len(text) - 1) : text[k] = "* " /\ text[k + 1] = tag

\* The explanation of the no-tag-matched path: the instruction, then the
\* entries of BACKPORT, FROMPULL and CHROMIUM in this order, UPSTREAM not
\* offered.
IsMissingTagCatalogue(text) ==
    /\ Begins(text, NoTagHeader)
    /\ \E a, b, d \in 1..Len(text) :
          /\ a < b /\ b < d
          /\ EntryAt(text, a, "BACKPORT", BackportHelp)
          /\ EntryAt(text, b, "FROMPULL", FrompullHelp)
          /\ EntryAt(text, d, "CHROMIUM", ChromiumHelp)
    /\ ~Offers(text, "UPSTREAM")

\* The message holds "https://github.com/zephyrproject-", then any
\* characters, then "/pull/" and a digit.  With sameLine the characters in
\* between exclude the line break.
HoldsPullRequestLink(s, sameLine) ==
    \E b, t \in 1..Len(s) :
        /\ b + Len(GithubZephyr) <= t
        /\ t + Len(PullPath) <= Len(s)
        /\ SubSeq(s, b, b + Len(GithubZephyr) - 1) = GithubZephyr
        /\ SubSeq(s, t, t + Len(PullPath) - 1) = PullPath
        /\ s[t + Len(PullPath)] \in Digits
        /\ sameLine =>
              \A k \in (b + Len(GithubZephyr))..(t - 1) : s[k] # NL

\* ------------------------------------------------------------------------
\* C1
\* ------------------------------------------------------------------------

\* C1: for a commit message that begins with none of "BACKPORT: ",
\* "FROMPULL: ", "CHROMIUM: ", "UPSTREAM: ", zephyr_get_review returns
\* MUST_NOT_SUBMIT and an explanation holding one catalogue entry (tag and
\* help text) for BACKPORT, FROMPULL and CHROMIUM, in table order, and no
\* entry offering UPSTREAM.
C1_NoTagCatalogue ==
    (Reviewed /\ BeginsWithNoTag(commit_message)) =>
        /\ verdict[1] = REVIEW_STRICTLY_DO_NOT_SUBMIT
        /\ IsMissingTagCatalogue(verdict[2])

C1_Witness ==
    /\ pc = "assign"
    /\ commit_message = <<"x", NL>> \o GithubZephyr
    /\ called = <<>>
    /\ Len(verdict[2]) = 16

\* ------------------------------------------------------------------------
\* C2
\* ------------------------------------------------------------------------

\* C2 as first stated: for a message beginning with "FROMPULL: ", the
\* verdict is NEEDS_HUMAN_REVIEW iff the message holds the link pattern
\* where the characters between "zephyrproject-" and "/pull/" may be any
\* characters, line breaks included; otherwise MUST_NOT_SUBMIT asking for a
\* link.
C2_LinkAcrossLines ==
    (Reviewed /\ BeginsWithTag(commit_message, "FROMPULL")) =>
        IF HoldsPullRequestLink(commit_message, FALSE)
        THEN verdict = <<REVIEW_NEEDS_HUMAN_APPROVAL, FrompullText>>
        ELSE verdict = <<REVIEW_STRICTLY_DO_NOT_SUBMIT, FrompullNoLinkText>>

\* C2 amended: the same, where the characters between "zephyrproject-" and
\* "/pull/" are any characters other than a line break.
C2_LinkOnOneLine ==
    (Reviewed /\ BeginsWithTag(commit_message, "FROMPULL")) =>
        IF HoldsPullRequestLink(commit_message, TRUE)
        THEN verdict = <<REVIEW_NEEDS_HUMAN_APPROVAL, FrompullText>>
        ELSE verdict = <<REVIEW_STRICTLY_DO_NOT_SUBMIT, FrompullNoLinkText>>

C2_Witness ==
    /\ pc = "assign"
    /\ commit_message =
           TagPrefix("FROMPULL") \o GithubZephyr \o <<"x">> \o PullPath \o <<"1">>
    /\ verdict[1] = REVIEW_NEEDS_HUMAN_APPROVAL

\* ------------------------------------------------------------------------
\* C3
\* ------------------------------------------------------------------------

\* C3: when main() got the HEAD message and ran to completion, the exit
\* status is non-zero iff the disposition is MUST_NOT_SUBMIT or
\* SHOULD_NOT_SUBMIT and zero for NEEDS_HUMAN_REVIEW and AUTO_APPROVABLE; a
\* "CHROMIUM: " commit exits with the status of a strictly forbidden one.
C3_ExitStatus ==
    (pc = "exited" /\ ~raised) =>
        /\ exit_status # 0 <=>
              ret \in {REVIEW_STRICTLY_DO_NOT_SUBMIT, REVIEW_PREFER_NOT_SUBMITTED}
        /\ ret \in {REVIEW_NEEDS_HUMAN_APPROVAL, REVIEW_AUTOMATIC_APPROVAL} =>
              exit_status = 0
        /\ (BeginsWithTag(c, "CHROMIUM") \/ BeginsWithTag(c, "UPSTREAM")) =>
              exit_status = 1

C3_Witness ==
    /\ pc = "exited"
    /\ ~raised
    /\ c = TagPrefix("CHROMIUM") \o <<"x">>
    /\ exit_status = 1

\* ------------------------------------------------------------------------
\* C4
\* ------------------------------------------------------------------------

\* C4: when the repository cannot be opened or the HEAD commit cannot be
\* read, the run ends before zephyr_get_review is invoked, and its exit
\* status differs from the exit status of a MUST_NOT_SUBMIT verdict.
C4_FailureDistinctFromVerdict ==
    (pc = "exited" /\ raised) =>
        /\ tag_idx = 0
        /\ called = <<>>
        /\ ~Reviewed
        /\ exit_status # ExitStatus(MainReturn(REVIEW_STRICTLY_DO_NOT_SUBMIT))

\* ------------------------------------------------------------------------
\* C5
\* ------------------------------------------------------------------------

\* The message begins with a malformed tag: lower case, no space after the
\* colon, a leading blank, or the tag on the second line.
MalformedTag(s) ==
    \/ \E h \in LowerCaseHeads \cup LeadingBlankHeads \cup LaterLineHeads :
          Begins(s, h)
    \/ \E h \in NoSpaceHeads :
          Begins(s, h) /\ (Len(s) > Len(h) => s[Len(h) + 1] # " ")

\* C5: the message matches tag T iff it begins, at its first character,
\* with exactly T, a colon and one space; a lower-case tag, a tag without
\* the space, a tag after a blank and a tag on a later line match nothing
\* and take the no-tag-matched path.
C5_ExactPrefix ==
    Reviewed =>
        /\ \A k \in 1..Len(zephyr_tags) :
              BeginsWithTag(commit_message, zephyr_tags[k].tag) <=>
                  called = <<zephyr_tags[k].review_func>>
        /\ MalformedTag(commit_message) =>
              /\ called = <<>>
              /\ help_idx > Len(zephyr_tags)
              /\ verdict = <<REVIEW_STRICTLY_DO_NOT_SUBMIT, review_msg>>

C5_Witness ==
    /\ pc = "assign"
    /\ commit_message = <<"x", NL>> \o TagPrefix("BACKPORT") \o <<"x">>
    /\ called = <<>>
    /\ Begins(verdict[2], NoTagHeader)

\* ------------------------------------------------------------------------
\* C6
\* ------------------------------------------------------------------------

\* C6: a message beginning with "BACKPORT: ", "CHROMIUM: " or "UPSTREAM: "
\* gets the fixed verdict of its tag whatever follows: NEEDS_HUMAN_REVIEW
\* for BACKPORT, SHOULD_NOT_SUBMIT with the upstreaming guidance for
\* CHROMIUM, and for UPSTREAM MUST_NOT_SUBMIT with its own explanation,
\* which mentions "obsolete" and "BACKPORT" and is not the missing-tag
\* catalogue.
C6_FixedVerdicts ==
    Reviewed =>
        /\ BeginsWithTag(commit_message, "BACKPORT") =>
              verdict = <<REVIEW_NEEDS_HUMAN_APPROVAL, BackportText>>
        /\ BeginsWithTag(commit_message, "CHROMIUM") =>
              /\ verdict = <<REVIEW_PREFER_NOT_SUBMITTED, ChromiumText>>
              /\ Mentions(verdict[2], "upstream")
        /\ BeginsWithTag(commit_message, "UPSTREAM") =>
              /\ verdict = <<REVIEW_STRICTLY_DO_NOT_SUBMIT, UpstreamText>>
              /\ called = <<"check_upstream_commit">>
              /\ Mentions(verdict[2], "obsolete")
              /\ Mentions(verdict[2], "BACKPORT")
              /\ ~Begins(verdict[2], NoTagHeader)
              /\ review_msg = <<>>

C6_Witness ==
    /\ pc = "assign"
    /\ commit_message =
           TagPrefix("UPSTREAM") \o GithubZephyr \o PullPath \o <<"1">>
    /\ verdict[1] = REVIEW_STRICTLY_DO_NOT_SUBMIT
    /\ Mentions(verdict[2], "obsolete")

\* ------------------------------------------------------------------------
\* C7
\* ------------------------------------------------------------------------

\* Number of fragments of the text equal to the fragment.
RECURSIVE Occurrences(_, _)
Occurrences(text, fragment) ==
    IF text = <<>> THEN 0
    ELSE (IF Head(text) = fragment THEN 1 ELSE 0)
         + Occurrences(Tail(text), fragment)

\* C7: once the output stage is over, standard output is the explanation
\* (ended like a printed line), two blank lines, then the disclaimer; the
\* disclaimer is printed once whatever the disposition; while the output
\* stage runs the parts appear in this order; and nothing is printed
\* before zephyr_get_review has returned.
C7_OutputOrder ==
    /\ ~Reviewed => stdout = <<>>
    /\ pc \in {"assign", "print_msg"} => stdout = <<>>
    /\ pc = "print_blank" => stdout = msg \o <<NL>>
    /\ pc = "print_disclaimer" => stdout = msg \o <<NL>> \o <<NL, NL>>
    /\ (pc \in {"return", "exited"} /\ ~raised) =>
          /\ msg = verdict[2]
          /\ stdout = msg \o <<NL>> \o <<NL, NL>>
                          \o BOT_DISCLAIMER_MESSAGE \o <<NL>>
          /\ Occurrences(stdout, BOT_DISCLAIMER_MESSAGE[1]) = 1

C7_Witness ==
    /\ pc = "exited"
    /\ ~raised
    /\ ret = REVIEW_NEEDS_HUMAN_APPROVAL
    /\ Len(stdout) = Len(msg) + 5
    /\ stdout[Len(stdout) - 1] = BOT_DISCLAIMER_MESSAGE[1]

\* ------------------------------------------------------------------------
\* C8
\* ------------------------------------------------------------------------

\* A pair of a defined disposition and an explanation text.
WellFormedVerdict(v) ==
    /\ Len(v) = 2
    /\ v[1] \in {REVIEW_STRICTLY_DO_NOT_SUBMIT, REVIEW_PREFER_NOT_SUBMITTED,
                 REVIEW_NEEDS_HUMAN_APPROVAL, REVIEW_AUTOMATIC_APPROVAL}
    /\ Len(v[2]) > 0
    /\ \A k \in 1..Len(v[2]) : v[2][k] \in STRING

\* C8: zephyr_get_review, once entered, returns for every input, and what
\* it returns is a well-formed verdict; for the empty message it is
\* MUST_NOT_SUBMIT with the missing-tag catalogue.
C8_ReviewTerminates ==
    (pc = "scan") ~>
        /\ pc = "assign"
        /\ WellFormedVerdict(verdict)
        /\ commit_message = <<>> =>
              /\ verdict[1] = REVIEW_STRICTLY_DO_NOT_SUBMIT
              /\ IsMissingTagCatalogue(verdict[2])

C8_Witness ==
    /\ pc = "assign"
    /\ commit_message = <<>>
    /\ verdict[1] = REVIEW_STRICTLY_DO_NOT_SUBMIT
    /\ IsMissingTagCatalogue(verdict[2])

\* ------------------------------------------------------------------------
\* C9
\* ------------------------------------------------------------------------

\* C9 as first stated: the disposition returned is one of MUST_NOT_SUBMIT,
\* SHOULD_NOT_SUBMIT, NEEDS_HUMAN_REVIEW and never equals AUTO_APPROVABLE.
C9_NeverAutoApprovable ==
    Reviewed =>
        /\ verdict[1] \in {REVIEW_STRICTLY_DO_NOT_SUBMIT,
                           REVIEW_PREFER_NOT_SUBMITTED,
                           REVIEW_NEEDS_HUMAN_APPROVAL}
        /\ verdict[1] # REVIEW_AUTOMATIC_APPROVAL

\* C9 amended: the disposition returned is one of MUST_NOT_SUBMIT,
\* SHOULD_NOT_SUBMIT, NEEDS_HUMAN_REVIEW; it has the value of
\* AUTO_APPROVABLE only where the rule gives NEEDS_HUMAN_REVIEW, that is for
\* a BACKPORT message and for a FROMPULL message holding a link.
C9_OnlyThreeDispositions ==
    Reviewed =>
        /\ verdict[1] \in {REVIEW_STRICTLY_DO_NOT_SUBMIT,
                           REVIEW_PREFER_NOT_SUBMITTED,
                           REVIEW_NEEDS_HUMAN_APPROVAL}
        /\ verdict[1] = REVIEW_AUTOMATIC_APPROVAL <=>
              \/ BeginsWithTag(commit_message, "BACKPORT")
              \/ /\ BeginsWithTag(commit_message, "FROMPULL")
                 /\ HoldsPullRequestLink(commit_message, TRUE)

C9_Witness ==
    /\ pc = "assign"
    /\ commit_message = TagPrefix("BACKPORT") \o <<"x">>
    /\ verdict[1] = REVIEW_NEEDS_HUMAN_APPROVAL
    /\ verdict[1] = REVIEW_AUTOMATIC_APPROVAL

\* ------------------------------------------------------------------------
\* C10
\* ------------------------------------------------------------------------

\* Entries of the table whose "<tag>: " the message begins with.
MatchingEntries(s) ==
    {k \in 1..Len(zephyr_tags) :
        Begins(s, TagChars(zephyr_tags[k].tag) \o <<":", " ">>)}

\* The entry a first-match-wins scan finds when it visits the table in the
\* given order (order[1] first) and the entries of hits are those that
\* match; 0 when none does.
FirstMatchIn(order, hits) ==
    LET at == {j \in 1..Len(zephyr_tags) : order[j] \in hits}
    IN  IF at = {} THEN 0
        ELSE order[CHOOSE j \in at : \A j2 \in at : j <= j2]

\* C10: at most one entry of the table matches a message, since no
\* "<tag>: " is a prefix of another; so the scan in declaration order
\* returns what a scan in any other order returns, and exactly one
\* validator is invoked for a matching message, none otherwise.
C10_SingleMatch ==
    /\ \A a, b \in 1..Len(zephyr_tags) :
          a # b => ~Begins(TagChars(zephyr_tags[b].tag) \o <<":", " ">>,
                           TagChars(zephyr_tags[a].tag) \o <<":", " ">>)
    /\ Reviewed =>
          LET hits == MatchingEntries(commit_message)
          IN  /\ Cardinality(hits) <= 1
              /\ Len(called) = Cardinality(hits)
              /\ \A order \in Permutations(1..Len(zephyr_tags)) :
                    LET first == FirstMatchIn(order, hits)
                    IN  IF first = 0
                        THEN called = <<>> /\ verdict[2] = review_msg
                        ELSE /\ called = <<zephyr_tags[first].review_func>>
                             /\ verdict =
                                    CallReviewFunc(
                                        zephyr_tags[first].review_func,
                                        commit_message)

C10_Witness ==
    /\ pc = "assign"
    /\ commit_message = TagPrefix("CHROMIUM") \o <<"x">>
    /\ called = <<"check_chromium_commit">>
    /\ MatchingEntries(commit_message) = {3}
====
